---- MODULE Spec2Model ----
(***************************************************************************)
(* Infinite Conway's Game of Life (src/src/main.rs): the frame loop of     *)
(* main (pointer, keyboard, wheel, simulation clock) and the simulation    *)
(* engine process_cells / convolve.                                        *)
(*                                                                         *)
(* An IVec2 is a pair <<x, y>>.  Time is measured in hundredths of a       *)
(* second: half a simulation tick at 50 steps per second.                  *)
(***************************************************************************)
EXTENDS Integers, FiniteSets, Sequences, TLC

\* ------------------------------------------------------------ constants

\* const DRAG_THRESHOLD: i32 = 5 (compared with a squared length).
DRAG_THRESHOLD == 5

\* const SIMULATION_STEPS_PER_SECOND: u32 = 50
SIMULATION_STEPS_PER_SECOND == 50

\* rl.get_time() is in seconds; the model counts hundredths of a second.
TimeUnitsPerSecond == 100

\* 1.0 / SIMULATION_STEPS_PER_SECOND, in time units: 2.
tick_duration == TimeUnitsPerSecond \div SIMULATION_STEPS_PER_SECOND

\* let mut cell_size = 12.
InitialCellSize == 12

\* .clamp(2, 100)
MinCellSize == 2

MaxCellSize == 100

\* The range of the coordinate type of glam's IVec2 (i32).
I32_MAX == 2147483647

I32_MIN == -I32_MAX - 1

\* --------------------------------------------------------------- bounds

\* The last clock reading (rl.get_time()) explored by the frame loop.
MaxTime == 6

\* The last clock reading explored when only the clock is driven.
MaxClockTime == 24

\* The frame loop is explored while |origin.x|, |origin.y| <= MaxOrigin.
MaxOrigin == 2

\* The frame loop is explored while the World Grid holds at most MaxCells.
MaxCells == 4

\* The engine is applied to the subsets of a window 0..EngineSpan wide.
EngineSpan == 2

\* The engine alone is applied at most MaxEngineSteps times in a row.
MaxEngineSteps == 3

\* ------------------------------------------------------ IVec2 arithmetic

ZERO == <<0, 0>>

VAdd(a, b) == <<a[1] + b[1], a[2] + b[2]>>

VSub(a, b) == <<a[1] - b[1], a[2] - b[2]>>

\* Rust's i32 `/` truncates toward zero (d > 0 here).
TruncDiv(a, d) == IF a >= 0 THEN a \div d ELSE -((-a) \div d)

\* IVec2 / i32: component-wise truncating division.
VDiv(a, d) == <<TruncDiv(a[1], d), TruncDiv(a[2], d)>>

\* IVec2::length_squared
length_squared(a) == a[1] * a[1] + a[2] * a[2]

\* ------------------------------------------------------ simulation engine

\* The 8 Moore offsets: (-1..=1) x (-1..=1) without ZERO.
deltas == {d \in (-1 .. 1) \X (-1 .. 1) : d # ZERO}

\* i32 + d for d in -1..1, two's complement wraparound (release builds).
wrapping_add(a, d) ==
    IF a = I32_MAX /\ d = 1 THEN I32_MIN
    ELSE IF a = I32_MIN /\ d = -1 THEN I32_MAX
    ELSE a + d

\* cell + delta on IVec2 (component-wise i32 addition).
cell_add(c, d) == <<wrapping_add(c[1], d[1]), wrapping_add(c[2], d[2])>>

\* Whether cell + delta leaves the range of i32 in some component.
add_overflows(c, d) ==
    \/ c[1] = I32_MAX /\ d[1] = 1
    \/ c[1] = I32_MIN /\ d[1] = -1
    \/ c[2] = I32_MAX /\ d[2] = 1
    \/ c[2] = I32_MIN /\ d[2] = -1

\* Whether convolve meets an i32 overflow on this input.
convolve_overflows(survived_cells) ==
    \E c \in survived_cells : \E d \in deltas : add_overflows(c, d)

\* What an i32 overflow in cell + delta does: the process panics (a build
\* with overflow checks, the debug profile) or the sum wraps (release).
\* The set of values of "the process panicked".
overflow_outcomes(overflow) == IF overflow THEN BOOLEAN ELSE {FALSE}

\* convolve: the map from every cell that is a neighbour of a live cell to
\* the number of (cell, delta) pairs that land on it (itertools' counts()).
convolve(survived_cells) ==
    LET keys == {cell_add(c, d) : c \in survived_cells, d \in deltas}
    IN  [k \in keys |->
            Cardinality({p \in survived_cells \X deltas :
                            cell_add(p[1], p[2]) = k})]

\* Mutant: no births, the survivors only.
process_cells_no_births(survived_cells) ==
    LET neighbour_counts == convolve(survived_cells)
    IN  {c \in survived_cells :
            /\ c \in DOMAIN neighbour_counts
            /\ neighbour_counts[c] \in {2, 3}}

\* Mutant: a cell is born at the origin of an empty grid.
process_cells_spawning(survived_cells) ==
    LET neighbour_counts == convolve(survived_cells)
        survivors == {c \in survived_cells :
                         /\ c \in DOMAIN neighbour_counts
                         /\ neighbour_counts[c] \in {2, 3}}
        births == {c \in DOMAIN neighbour_counts : neighbour_counts[c] = 3}
    IN  IF survived_cells = {} THEN {ZERO} ELSE survivors \cup births

\* process_cells: survivors (live, count 2 or 3) chained with births
\* (any key of the map with count 3), collected into a set.
process_cells(survived_cells) ==
    LET neighbour_counts == convolve(survived_cells)
        survivors == {c \in survived_cells :
                         /\ c \in DOMAIN neighbour_counts
                         /\ neighbour_counts[c] \in {2, 3}}
        births == {c \in DOMAIN neighbour_counts : neighbour_counts[c] = 3}
    IN  survivors \cup births

\* -------------------------------------------------------- view transform

\* current_mouse_pos / cell_size - origin (lines 118, 150, 151).
screen_cell(p, size, org) == VSub(VDiv(p, size), org)

RECURSIVE Pow(_, _)
Pow(b, n) == IF n = 0 THEN 1 ELSE b * Pow(b, n - 1)

\* From this many notches on 1.1f32.powf(wheel_move) is +inf in f32
\* (1.1^931 > f32::MAX), and with as many the other way the product with
\* any cell size up to 100 is below 1e-36.
SaturatingNotches == 1000

\* ((cell_size as f32 * 1.1f32.powf(wheel_move)).round() as i32) for a whole
\* number of notches: the nearest integer, halves away from zero; the
\* cast of +inf saturates at i32::MAX.
zoom_round(size, wheel) ==
    IF wheel >= SaturatingNotches THEN I32_MAX
    ELSE IF wheel <= -SaturatingNotches THEN 0
    ELSE IF wheel >= 0
    THEN (size * Pow(11, wheel) + Pow(10, wheel) \div 2) \div Pow(10, wheel)
    ELSE (2 * size * Pow(10, -wheel) + Pow(11, -wheel))
             \div (2 * Pow(11, -wheel))

clamp(v, lo, hi) == IF v < lo THEN lo ELSE IF v > hi THEN hi ELSE v

\* Mutant: the upper limit of the clamp is off by one.
new_cell_size_wide(size, wheel) ==
    clamp(zoom_round(size, wheel), MinCellSize, MaxCellSize + 1)

\* ((...).round() as i32).clamp(2, 100)
new_cell_size(size, wheel) ==
    clamp(zoom_round(size, wheel), MinCellSize, MaxCellSize)

\* origin += world_before - world_after
zoom_origin(p, size, new_size, org) ==
    LET world_before == screen_cell(p, size, org)
        world_after == screen_cell(p, new_size, org)
    IN  VAdd(org, VSub(world_before, world_after))

\* Wheel input handling: the (cell_size, origin) after the wheel step.
wheel_input(wheel, p, size, org) ==
    IF wheel # 0 /\ new_cell_size(size, wheel) # size
    THEN [cell_size |-> new_cell_size(size, wheel),
          origin |-> zoom_origin(p, size, new_cell_size(size, wheel), org)]
    ELSE [cell_size |-> size, origin |-> org]

\* ------------------------------------------------------------ pointer

\* Mutant: the comparison reversed.
drag_exceeds_reversed(cur, down) ==
    length_squared(VSub(cur, down)) < DRAG_THRESHOLD

\* drag_distance.length_squared() > DRAG_THRESHOLD
drag_exceeds(cur, down) == length_squared(VSub(cur, down)) > DRAG_THRESHOLD

\* origin = previous_offset + (current_mouse_pos - mouse_down_pos) / cell_size
pan_origin(prev, cur, down, size) == VAdd(prev, VDiv(VSub(cur, down), size))

\* Mutant: the cell is inserted whether or not it is live.
toggle_insert_only(grid, cell) == grid \cup {cell}

\* if cells.contains(&cell) { cells.remove(&cell) } else { cells.insert(cell) }
toggle(grid, cell) ==
    IF cell \in grid THEN grid \ {cell} ELSE grid \cup {cell}

\* ------------------------------------------------------------- state

VARIABLES
    cell_size,        \* pixels per cell edge
    origin,           \* pan offset, in cells
    cells,            \* the World Grid: the set of live cells
    is_dragging,
    is_mouse_down,
    mouse_down_pos,
    previous_offset,
    is_running,
    last_time,
    last_frame_time,  \* the accumulator (the spec's accumulated_time)
    current_time,     \* rl.get_time() as read by the latest frame
    input,            \* what raylib reported to the latest frame
    panicked,         \* the process died on an arithmetic overflow
    toggled,          \* cells whose membership the latest frame's mouse branch changed
    steps,            \* process_cells calls made by the latest frame
    gesture,          \* history of the button since it last went down
    run_time,         \* time elapsed since the frame that set is_running
    run_carry,        \* last_frame_time at the end of that frame
    run_steps,        \* process_cells calls since that frame
    seed,             \* the set the engine, driven alone, was started on
    last_click        \* history of the latest click (a release after a
                      \* press whose readings never exceeded the threshold):
                      \* the grid before it (base), the cell under the
                      \* cursor, whether no step or clear came after it
                      \* (intact), whether it came on the cell of an intact
                      \* previous click (again), whose base is prior

vars == <<cell_size, origin, cells, is_dragging, is_mouse_down, mouse_down_pos,
          previous_offset, is_running, last_time, last_frame_time,
          current_time, input, panicked, toggled, steps,
          gesture, run_time, run_carry, run_steps, seed, last_click>>

\* No button, no key, no wheel.
IdleInput ==
    [mouse |-> ZERO, button_down |-> FALSE, key_space |-> FALSE,
     key_c |-> FALSE, wheel |-> 0]

NoGesture == [phase |-> "idle", press |-> ZERO, exceeded |-> FALSE]

NoClick ==
    [base |-> {}, cell |-> ZERO, intact |-> FALSE, again |-> FALSE,
     prior |-> {}]

\* The locals of main before the first iteration of the loop.
Init ==
    /\ cell_size = InitialCellSize
    /\ origin = ZERO
    /\ cells = {}
    /\ is_dragging = FALSE
    /\ is_mouse_down = FALSE
    /\ mouse_down_pos = ZERO
    /\ previous_offset = ZERO
    /\ is_running = FALSE
    /\ last_time = 0
    /\ last_frame_time = 0
    /\ current_time = 0
    /\ input = IdleInput
    /\ panicked = FALSE
    /\ toggled = {}
    /\ steps = 0
    /\ gesture = NoGesture
    /\ run_time = 0
    /\ run_carry = 0
    /\ run_steps = 0
    /\ seed = {}
    /\ last_click = NoClick

\* ------------------------------------------------------- frame stages

\* Mutant: the release does not clear is_dragging.
mouse_input_keep_dragging(in) ==
    LET cur == [is_mouse_down |-> is_mouse_down, is_dragging |-> is_dragging,
                mouse_down_pos |-> mouse_down_pos,
                previous_offset |-> previous_offset,
                origin |-> origin, cells |-> cells]
    IN  IF in.button_down
        THEN IF ~is_mouse_down
             THEN [cur EXCEPT !.is_mouse_down = TRUE,
                              !.mouse_down_pos = in.mouse,
                              !.previous_offset = origin]
             ELSE IF drag_exceeds(in.mouse, mouse_down_pos)
             THEN [cur EXCEPT !.is_dragging = TRUE,
                              !.origin = pan_origin(previous_offset, in.mouse,
                                                    mouse_down_pos, cell_size)]
             ELSE cur
        ELSE IF is_mouse_down
             THEN [cur EXCEPT !.cells =
                                  IF ~is_dragging
                                  THEN toggle(cells, screen_cell(in.mouse, cell_size, origin))
                                  ELSE cells,
                              !.is_mouse_down = FALSE]
             ELSE cur

\* Mouse input handling (lines 105-129): the pointer state, origin and
\* cells after it.
mouse_input(in) ==
    LET cur == [is_mouse_down |-> is_mouse_down, is_dragging |-> is_dragging,
                mouse_down_pos |-> mouse_down_pos,
                previous_offset |-> previous_offset,
                origin |-> origin, cells |-> cells]
    IN  IF in.button_down
        THEN IF ~is_mouse_down
             THEN [cur EXCEPT !.is_mouse_down = TRUE,
                              !.mouse_down_pos = in.mouse,
                              !.previous_offset = origin]
             ELSE IF drag_exceeds(in.mouse, mouse_down_pos)
             THEN [cur EXCEPT !.is_dragging = TRUE,
                              !.origin = pan_origin(previous_offset, in.mouse,
                                                    mouse_down_pos, cell_size)]
             ELSE cur
        ELSE IF is_mouse_down
             THEN [cur EXCEPT !.cells =
                                  IF ~is_dragging
                                  THEN toggle(cells, screen_cell(in.mouse, cell_size, origin))
                                  ELSE cells,
                              !.is_dragging = FALSE,
                              !.is_mouse_down = FALSE]
             ELSE cur

\* Keyboard input handling (lines 133-137).
keyboard_input(in, run, grid) ==
    IF in.key_space THEN [is_running |-> ~run, cells |-> grid]
    ELSE IF in.key_c THEN [is_running |-> run, cells |-> {}]
    ELSE [is_running |-> run, cells |-> grid]

\* Mutant: the accumulator is not reset when a tick fires.
simulation_logic_no_reset(run, now, last, acc) ==
    IF run
    THEN [last_time |-> now, last_frame_time |-> acc + (now - last),
          steps |-> IF acc + (now - last) >= tick_duration THEN 1 ELSE 0]
    ELSE [last_time |-> last, last_frame_time |-> acc, steps |-> 0]

\* Mutant: a tick takes tick_duration off the accumulator instead of
\* resetting it.
simulation_logic_decrement(run, now, last, acc) ==
    IF run
    THEN IF acc + (now - last) >= tick_duration
         THEN [last_time |-> now,
               last_frame_time |-> acc + (now - last) - tick_duration,
               steps |-> 1]
         ELSE [last_time |-> now, last_frame_time |-> acc + (now - last),
               steps |-> 0]
    ELSE [last_time |-> last, last_frame_time |-> acc, steps |-> 0]

\* Mutant: the clock runs whether or not is_running is set.
simulation_logic_unpaused(run, now, last, acc) ==
    IF acc + (now - last) >= tick_duration
    THEN [last_time |-> now, last_frame_time |-> 0, steps |-> 1]
    ELSE [last_time |-> now, last_frame_time |-> acc + (now - last),
          steps |-> 0]

\* Mutant: a tick fires only when the accumulator exceeds tick_duration.
simulation_logic_strict(run, now, last, acc) ==
    IF run
    THEN IF acc + (now - last) > tick_duration
         THEN [last_time |-> now, last_frame_time |-> 0, steps |-> 1]
         ELSE [last_time |-> now, last_frame_time |-> acc + (now - last),
               steps |-> 0]
    ELSE [last_time |-> last, last_frame_time |-> acc, steps |-> 0]

\* Simulation logic (lines 159-167): the clock after the frame and the
\* number of process_cells calls it makes.
simulation_logic(run, now, last, acc) ==
    IF run
    THEN IF acc + (now - last) >= tick_duration
         THEN [last_time |-> now, last_frame_time |-> 0, steps |-> 1]
         ELSE [last_time |-> now, last_frame_time |-> acc + (now - last),
               steps |-> 0]
    ELSE [last_time |-> last, last_frame_time |-> acc, steps |-> 0]

\* cells = process_cells(&cells), n times.
RECURSIVE advance(_, _)
advance(grid, n) == IF n = 0 THEN grid ELSE advance(process_cells(grid), n - 1)

\* ------------------------------------------------------------ history

\* These variables record what happened; the program does not read them.

\* The button's history, from the readings alone: where it went down and
\* whether a reading taken while it was held lay beyond the threshold.
gesture_after(in) ==
    IF in.button_down
    THEN IF gesture.phase = "held"
         THEN [gesture EXCEPT !.exceeded =
                  @ \/ length_squared(VSub(in.mouse, gesture.press)) > DRAG_THRESHOLD]
         ELSE [phase |-> "held", press |-> in.mouse, exceeded |-> FALSE]
    ELSE IF gesture.phase = "held"
         THEN [gesture EXCEPT !.phase = "released"]
         ELSE NoGesture

SymDiff(a, b) == (a \ b) \cup (b \ a)

\* ------------------------------------------------------------- frame

\* One iteration of the loop of main, reading `in` from raylib at clock
\* reading `now`.
Frame(in, now) ==
    /\ ~panicked
    /\ now >= current_time
    /\ LET m == mouse_input(in)
           k == keyboard_input(in, is_running, m.cells)
           z == wheel_input(in.wheel, in.mouse, cell_size, m.origin)
           c == simulation_logic(k.is_running, now, last_time, last_frame_time)
           overflow == c.steps > 0 /\ convolve_overflows(k.cells)
           cleared == in.key_c /\ ~in.key_space
           flipped == SymDiff(cells, m.cells)
           click == /\ ~in.button_down
                    /\ gesture.phase = "held"
                    /\ ~gesture.exceeded
           under == screen_cell(in.mouse, cell_size, origin)
       IN  /\ \E crash \in overflow_outcomes(overflow) :
                  /\ panicked' = crash
                  /\ cells' = IF crash THEN k.cells
                                        ELSE advance(k.cells, c.steps)
           /\ current_time' = now
           /\ input' = in
           /\ is_mouse_down' = m.is_mouse_down
           /\ is_dragging' = m.is_dragging
           /\ mouse_down_pos' = m.mouse_down_pos
           /\ previous_offset' = m.previous_offset
           /\ is_running' = k.is_running
           /\ cell_size' = z.cell_size
           /\ origin' = z.origin
           /\ last_time' = c.last_time
           /\ last_frame_time' = c.last_frame_time
           /\ toggled' = flipped
           /\ steps' = c.steps
           /\ gesture' = gesture_after(in)
           /\ run_time' = IF is_running /\ k.is_running
                          THEN run_time + (now - current_time) ELSE 0
           /\ run_carry' = IF is_running /\ k.is_running THEN run_carry
                           ELSE IF k.is_running THEN c.last_frame_time
                           ELSE 0
           /\ run_steps' = IF is_running /\ k.is_running
                           THEN run_steps + c.steps ELSE 0
           /\ seed' = seed
           /\ last_click' =
                  IF click
                  THEN [base |-> cells, cell |-> under,
                        intact |-> ~cleared /\ c.steps = 0,
                        again |-> last_click.intact /\ last_click.cell = under,
                        prior |-> last_click.base]
                  ELSE [last_click EXCEPT
                            !.intact = @ /\ ~cleared /\ c.steps = 0]

\* ------------------------------------------------------- environments

\* Cursor readings: two within the drag threshold of each other (squared
\* distance exactly 5), one of them left of the window, and one far away.
MousePositions == {<<1, 1>>, <<-1, 2>>, <<13, 1>>}

\* The pointer and the keys, no wheel.
PointerInputs ==
    [mouse : MousePositions, button_down : BOOLEAN, key_space : BOOLEAN,
     key_c : BOOLEAN, wheel : {0}]

\* The part of the state space the frame loop is explored in.
Explored ==
    /\ origin[1] \in -MaxOrigin .. MaxOrigin
    /\ origin[2] \in -MaxOrigin .. MaxOrigin
    /\ Cardinality(cells) <= MaxCells

Next ==
    \E in \in PointerInputs :
        /\ current_time + 1 <= MaxTime
        /\ Frame(in, current_time + 1)
        /\ Explored'

Spec == Init /\ [][Next]_vars

\* The cursor and the wheel, no button and no keys: the view transform.
\* Seven notches nearly double or halve the cell size; SaturatingNotches
\* is a wheel delta beyond the range of the f32 zoom factor.
ViewInputs ==
    [mouse : MousePositions, button_down : {FALSE}, key_space : {FALSE},
     key_c : {FALSE},
     wheel : {-SaturatingNotches, -7, -1, 0, 1, 7, SaturatingNotches}]

NextView ==
    \E in \in ViewInputs :
        /\ current_time + 1 <= MaxTime
        /\ Frame(in, current_time + 1)
        /\ Explored'

SpecView == Init /\ [][NextView]_vars

\* The keys and the clock only: frames of half a tick, of a tick and a
\* half, and a stall of ten ticks.
ClockInputs ==
    [mouse : {ZERO}, button_down : {FALSE}, key_space : BOOLEAN,
     key_c : BOOLEAN, wheel : {0}]

FrameTimes == {1, 3, 10 * tick_duration}

NextClock ==
    \E in \in ClockInputs : \E dt \in FrameTimes :
        /\ current_time + dt <= MaxClockTime
        /\ Frame(in, current_time + dt)

SpecClock == Init /\ [][NextClock]_vars

\* The engine alone, applied up to MaxEngineSteps times in a row to every
\* set of cells of a window at the origin and of a window at the upper end
\* of the x coordinate's range.
EngineWindow == (0 .. EngineSpan) \X (0 .. 2)

EdgeWindow == {I32_MAX - 2, I32_MAX - 1, I32_MAX} \X (0 .. 2)

EngineSeeds == (SUBSET EngineWindow) \cup (SUBSET EdgeWindow)

InitEngine ==
    /\ cells \in EngineSeeds
    /\ cell_size = InitialCellSize
    /\ origin = ZERO
    /\ is_dragging = FALSE
    /\ is_mouse_down = FALSE
    /\ mouse_down_pos = ZERO
    /\ previous_offset = ZERO
    /\ is_running = TRUE
    /\ last_time = 0
    /\ last_frame_time = 0
    /\ current_time = 0
    /\ input = IdleInput
    /\ panicked = FALSE
    /\ toggled = {}
    /\ steps = 0
    /\ gesture = NoGesture
    /\ run_time = 0
    /\ run_carry = 0
    /\ run_steps = 0
    /\ seed = cells
    /\ last_click = NoClick

\* cells = process_cells(&cells), once more.
EngineStep ==
    /\ ~panicked
    /\ run_steps < MaxEngineSteps
    /\ \E crash \in overflow_outcomes(convolve_overflows(cells)) :
           /\ panicked' = crash
           /\ cells' = IF crash THEN cells ELSE process_cells(cells)
    /\ steps' = 1
    /\ run_steps' = run_steps + 1
    /\ UNCHANGED <<cell_size, origin, is_dragging, is_mouse_down,
                   mouse_down_pos, previous_offset, is_running, last_time,
                   last_frame_time, current_time, input, toggled, gesture,
                   run_time, run_carry, seed, last_click>>

SpecEngine == InitEngine /\ [][EngineStep]_vars

\* ===================================================================
\* Properties
\* ===================================================================

\* ---- Conway's rule on the integer grid, stated without the engine.

\* |a - b| <= 1 on the integers (no sum leaves the range of i32).
Within1(a, b) ==
    \/ a = b
    \/ a < I32_MAX /\ a + 1 = b
    \/ b < I32_MAX /\ b + 1 = a

MooreNeighbour(a, b) == a # b /\ Within1(a[1], b[1]) /\ Within1(a[2], b[2])

LiveNeighbours(W, c) == Cardinality({w \in W : MooreNeighbour(w, c)})

ConwayLive(W, c) ==
    \/ c \in W /\ LiveNeighbours(W, c) \in {2, 3}
    \/ c \notin W /\ LiveNeighbours(W, c) = 3

\* The representable cells within one step of a cell of W.
Halo(W) ==
    {cell_add(w, d) : w \in W, d \in deltas} \cup W

\* R is the Conway successor of W, as far as representable cells go.
IsConwaySuccessor(W, R) ==
    \A c \in Halo(W) \cup R : c \in R <=> ConwayLive(W, c)

\* C1: for every finite set W of live cells, process_cells(W) returns
\* exactly the Conway successor of W (survival on 2 or 3, birth on 3).
C1_ConwaySuccessor ==
    [][~panicked' /\ IsConwaySuccessor(cells, cells')]_vars

\* The same for the sets on which no neighbour coordinate overflows: there
\* process_cells is the Conway successor.
ConwaySuccessorInRange ==
    [][~convolve_overflows(cells)
           => ~panicked' /\ IsConwaySuccessor(cells, cells')]_vars

\* ---- The view transform of the specification: floor division.

screen_to_world(p, size, org) ==
    VSub(<<p[1] \div size, p[2] \div size>>, org)

\* C2: zoom anchoring: the world cell under the cursor is the same under
\* the (cell_size, origin) after a wheel step as under those before it.
\* (Frames without the button: the wheel step is then the only writer of
\* cell_size and origin.)
C2_ZoomAnchoring ==
    [][(~input'.button_down /\ input'.wheel # 0)
           => screen_to_world(input'.mouse, cell_size', origin')
                = screen_to_world(input'.mouse, cell_size, origin)]_vars

\* C3: a press-release sequence during which some reading taken while the
\* button was held lay beyond DRAG_THRESHOLD of the press position toggles
\* no cell on release, wherever the cursor is then.
C3_DragNeverToggles ==
    (gesture.phase = "released" /\ gesture.exceeded) => toggled = {}

\* A drag was released with the cursor back on the press position, over a
\* state in which a click would have toggled a cell.
C3_Witness ==
    /\ gesture.phase = "released"
    /\ gesture.exceeded
    /\ input.mouse = gesture.press
    /\ toggled = {}
    /\ cells # {}

\* C4: a press-release sequence whose held readings all stay within
\* DRAG_THRESHOLD of the press position toggles, on the release frame,
\* exactly the cell screen_to_world(release position) under that frame's
\* cell_size and origin, and no other cell.
C4_ClickTogglesCell ==
    [][(gesture'.phase = "released" /\ ~gesture'.exceeded)
           => toggled' = {screen_to_world(input'.mouse, cell_size, origin)}]_vars

\* The same with the division of the code (truncating): the click toggles
\* exactly the cell current_mouse_pos / cell_size - origin.
ClickTogglesTruncatedCell ==
    [][(gesture'.phase = "released" /\ ~gesture'.exceeded)
           => toggled' = {screen_cell(input'.mouse, cell_size, origin)}]_vars

\* ---- The simulation clock.

\* C5: while running, the number of steps performed over elapsed time T is
\* floor(T / tick_duration), however T is divided into frames.  (Stated for
\* the runs that start with an empty accumulator.)
C5_StepPerTick ==
    (is_running /\ run_carry = 0) => run_steps = run_time \div tick_duration

\* C5 as amended: the steps of a run never outnumber the ticks of the time
\* the accumulator was given (what it held at the start of the run plus
\* the time elapsed since), less what it still holds.
C5_StepsAtMostTicks ==
    is_running
        => run_steps * tick_duration + last_frame_time <= run_carry + run_time

\* A run of three ticks in two frames of a tick and a half: two steps.
C5_Witness ==
    /\ is_running
    /\ run_carry = 0
    /\ run_time = 3 * tick_duration
    /\ run_steps = 2

\* C6: time that passed while paused is never added to the accumulator: on
\* the frame that sets is_running the accumulator grows by at most the
\* frame's own elapsed time, and a step is made only if the accumulator
\* plus that frame's own elapsed time reaches tick_duration.
C6_ResumeIgnoresPause ==
    [][(~is_running /\ is_running')
           => /\ last_frame_time'
                   <= last_frame_time + (current_time' - current_time)
              /\ (steps' > 0)
                   => (last_frame_time + (current_time' - current_time)
                         >= tick_duration)]_vars

\* C7: a frame makes at most one step; a running frame ten ticks long makes
\* exactly one and leaves the accumulator at 0; and a running frame that
\* starts with an empty accumulator and is shorter than a tick makes none
\* (nothing is queued for later frames).
C7_SingleStep ==
    [][/\ steps' <= 1
       /\ (is_running' /\ current_time' - current_time = 10 * tick_duration)
              => (steps' = 1 /\ last_frame_time' = 0)
       /\ (is_running /\ is_running' /\ last_frame_time = 0
              /\ current_time' - current_time < tick_duration)
              => steps' = 0]_vars

\* A run whose only frame so far was a stall of ten ticks: one step.
C7_Witness ==
    /\ is_running
    /\ run_time = 10 * tick_duration
    /\ run_steps = 1
    /\ steps = 1
    /\ last_frame_time = 0

\* ---- Keys.

\* C8: in every frame in which the clear key press is reported the World
\* Grid is empty at the end of the frame, whatever the other inputs.
C8_ClearEmpties ==
    input.key_c => cells = {}

\* The same for the frames in which the clear key is the only key: there
\* the grid is empty at the end of the frame.
ClearAloneEmpties ==
    (input.key_c /\ ~input.key_space) => cells = {}

\* ---- Click toggles.

\* C9: the cell used by the click toggle and by the zoom computation is
\* floor(p / cell_size) - origin, also for negative pixel coordinates.
C9_FloorDivision ==
    [][/\ toggled' # {}
              => toggled' = {screen_to_world(input'.mouse, cell_size, origin)}
       /\ (~input'.button_down /\ cell_size' # cell_size)
              => origin' = VAdd(origin,
                             VSub(screen_to_world(input'.mouse, cell_size, origin),
                                  screen_to_world(input'.mouse, cell_size', origin)))]_vars

\* C10: a second qualifying click on the cell of the previous one, with no
\* step and no clear since, leaves the World Grid as it was before the
\* first.  (Read on frames that neither step nor clear after the toggle.)
C10_ToggleRoundTrip ==
    (/\ gesture.phase = "released"
     /\ ~gesture.exceeded
     /\ last_click.again
     /\ steps = 0
     /\ ~(input.key_c /\ ~input.key_space))
        => cells = last_click.prior

\* The second click of a round trip, on a grid that holds another cell.
C10_Witness ==
    /\ gesture.phase = "released"
    /\ ~gesture.exceeded
    /\ last_click.again
    /\ steps = 0
    /\ cells = last_click.prior
    /\ cells \ {last_click.cell} # {}

\* ---- Oscillators and still states of the engine.

\* The 3-cell blinkers centred on c.
HorizontalBlinker(c) == {<<c[1] - 1, c[2]>>, c, <<c[1] + 1, c[2]>>}

VerticalBlinker(c) == {<<c[1], c[2] - 1>>, c, <<c[1], c[2] + 1>>}

\* The centres of W, if W is a horizontal blinker (one at most).
HorizontalCentres(W) ==
    {c \in W : /\ c[1] > I32_MIN
               /\ c[1] < I32_MAX
               /\ W = HorizontalBlinker(c)}

\* C11: applying process_cells three times to a horizontal 3-cell blinker
\* {(x-1,y),(x,y),(x+1,y)} returns the original horizontal set.
C11_BlinkerPeriodThree ==
    (HorizontalCentres(seed) # {} /\ run_steps = 3) => cells = seed

\* C11 as amended: the blinker has period two.  From a horizontal blinker
\* an even number of applications returns the original set and an odd
\* number (one, three) the vertical blinker on the same centre, as long
\* as no application died on an overflow.
C11_BlinkerPeriodTwo ==
    \A c \in HorizontalCentres(seed) :
        ~panicked =>
            /\ (run_steps \in {0, 2}) => cells = seed
            /\ (run_steps \in {1, 3}) => cells = VerticalBlinker(c)

\* Three applications to a horizontal blinker: the vertical one.
C11_Witness ==
    /\ HorizontalCentres(seed) # {}
    /\ run_steps = 3
    /\ ~panicked
    /\ cells # seed
    /\ \E c \in seed : cells = VerticalBlinker(c)

\* C12: the empty grid is a fixed point that the running simulation never
\* leaves: a frame that starts with an empty World Grid and toggles no
\* cell ends with an empty World Grid, whether or not a tick fires in it.
C12_EmptyStaysEmpty ==
    [][(cells = {} /\ toggled' = {}) => (cells' = {} /\ ~panicked')]_vars

\* A tick fired on a grid that was empty from the start: no click was
\* ever made, the run is at its second tick at least, the grid is empty.
C12_Witness ==
    /\ cells = {}
    /\ last_click = NoClick
    /\ toggled = {}
    /\ is_running
    /\ steps = 1
    /\ run_steps >= 2

\* ---- Coordinates at the ends of the range of i32.

\* The keys of the neighbour count map that are Moore neighbours of c on
\* the integer grid.
NeighbourKeys(W, c) == {k \in DOMAIN convolve(W) : MooreNeighbour(c, k)}

\* C13: the engine places no bound on coordinate magnitude: for a live
\* cell at any representable coordinate, the largest and smallest values
\* of i32 included, convolve computes its 8 neighbour coordinates without
\* overflow, wraparound or failure, and process_cells returns the Conway
\* successor.
C13_NoCoordinateBound ==
    [][/\ ~panicked'
       /\ \A c \in cells : Cardinality(NeighbourKeys(cells, c)) = 8
       /\ IsConwaySuccessor(cells, cells')]_vars

\* ---- Panning.

\* C14: while Dragging with the button still down the pan is applied on
\* every frame with the live cursor position: at the end of every such
\* frame (none has a wheel zoom here) origin = previous_offset +
\* (current_mouse_pos - mouse_down_pos) / cell_size, also when the cursor
\* is back within the drag threshold of the press position.
C14_PanEveryFrame ==
    (is_dragging /\ is_mouse_down /\ input.button_down)
        => origin = VAdd(previous_offset,
                         VDiv(VSub(input.mouse, mouse_down_pos), cell_size))

\* The same for the frames whose cursor reading lies beyond the threshold:
\* there the origin follows the cursor.
PanBeyondThreshold ==
    (/\ is_dragging
     /\ input.button_down
     /\ length_squared(VSub(input.mouse, mouse_down_pos)) > DRAG_THRESHOLD)
        => origin = VAdd(previous_offset,
                         VDiv(VSub(input.mouse, mouse_down_pos), cell_size))

\* ---- Zoom limits.

\* C15: cell_size is always an integer in [2, 100]: a wheel delta however
\* large saturates it at 2 or at 100, and a wheel step whose new cell
\* size equals the current one leaves cell_size and origin unchanged.
\* (Frames without the button: the wheel step is the only writer of
\* origin.)
C15_CellSizeClamped ==
    [][/\ cell_size' \in MinCellSize .. MaxCellSize
       /\ (input'.wheel >= SaturatingNotches) => cell_size' = MaxCellSize
       /\ (input'.wheel <= -SaturatingNotches) => cell_size' = MinCellSize
       /\ (~input'.button_down /\ cell_size' = cell_size)
              => origin' = origin]_vars

\* A wheel delta beyond the range of the zoom factor, on a cell size
\* already at the upper limit, away from the initial origin.
C15_Witness ==
    /\ input.wheel = SaturatingNotches
    /\ cell_size = MaxCellSize
    /\ origin # ZERO

\* ---- Pointer flags.

\* C16: is_dragging && !is_mouse_down is unreachable: at the end of every
\* frame is_dragging implies is_mouse_down.
C16_DraggingImpliesDown ==
    is_dragging => is_mouse_down

\* The end of a drag: the button was released after a reading beyond the
\* threshold, and both flags are clear.
C16_Witness ==
    /\ gesture.phase = "released"
    /\ gesture.exceeded
    /\ ~is_dragging
    /\ ~is_mouse_down

\* ---- The neighbour count map.

\* The map m is sparse for the live set W: at most 8 entries per live
\* cell, every count from 1 to 8, no key without a live Moore neighbour.
IsSparseCountMap(W, m) ==
    /\ Cardinality(DOMAIN m) <= 8 * Cardinality(W)
    /\ \A k \in DOMAIN m : m[k] \in 1 .. 8 /\ LiveNeighbours(W, k) >= 1

\* C17: for every set of k live cells convolve returns a map with at most
\* 8k entries, every count in it between 1 and 8, and no key for a cell
\* with zero live neighbours, whatever the magnitude of the coordinates.
C17_SparseCountMap ==
    [][~panicked' /\ IsSparseCountMap(cells, convolve(cells))]_vars

\* The same for the sets on which no neighbour coordinate overflows.
SparseCountMapInRange ==
    [][~convolve_overflows(cells)
           => ~panicked' /\ IsSparseCountMap(cells, convolve(cells))]_vars

\* ---- The paused simulation.

\* C18: while is_running is false the simulation never advances: in every
\* frame that ends with is_running false no step is made, the World Grid
\* changes only by the click toggle (one cell, on the release of a click)
\* or the clear of that frame, and last_frame_time and last_time are as
\* they were.
C18_PausedNeverAdvances ==
    [][~is_running' =>
          /\ steps' = 0
          /\ last_time' = last_time
          /\ last_frame_time' = last_frame_time
          /\ cells' \in {SymDiff(cells, toggled'), {}}
          /\ (cells' # SymDiff(cells, toggled')) => input'.key_c
          /\ (toggled' # {}) =>
                 /\ Cardinality(toggled') = 1
                 /\ gesture'.phase = "released"
                 /\ ~gesture'.exceeded]_vars

\* A paused frame with a click toggle, the clock reading past last_time
\* and time left in the accumulator from an earlier run.
C18_Witness ==
    /\ ~is_running
    /\ toggled # {}
    /\ last_frame_time > 0
    /\ current_time > last_time + tick_duration

\* ---- The accumulator.

\* C19: at the end of every frame, running or paused, last_frame_time is
\* at least 0 and less than tick_duration: whenever the accumulator with
\* the frame's elapsed time reaches tick_duration a step fires and the
\* accumulator is set to 0 (the remainder is dropped), and otherwise a
\* running frame keeps the sum.
C19_AccumulatorBelowTick ==
    [][/\ last_frame_time' >= 0
       /\ last_frame_time' < tick_duration
       /\ (steps' = 1) => last_frame_time' = 0
       /\ is_running' =>
              IF last_frame_time + (current_time' - last_time) >= tick_duration
              THEN steps' = 1 /\ last_frame_time' = 0
              ELSE /\ steps' = 0
                   /\ last_frame_time'
                        = last_frame_time + (current_time' - last_time)]_vars

\* A running frame of a tick and a half on an empty accumulator: one
\* step, and the accumulator is 0, not half a tick.
C19_Witness ==
    /\ is_running
    /\ run_carry = 0
    /\ run_time = 3
    /\ run_steps = 1
    /\ steps = 1
    /\ last_frame_time = 0

====
